---- MODULE Spec2Model ----
(***************************************************************************)
(* pydrobert.kaldi.tables: the three table handles (sequential reader,     *)
(* random-access reader, writer) over the native Kaldi table classes.      *)
(* The handles are modelled from tables.py; the native classes (module     *)
(* _internal) are modelled from the specification of the archive layer.    *)
(***************************************************************************)
EXTENDS Integers, Sequences, FiniteSets, TLC

\* ------------------------------------------------------------------ bounds
MaxLen == 2          \* entries one writer instance may append to an archive
TypesMaxLen == 1     \* the same, in the scenarios that go through every type

\* ------------------------------------------------------------ value domains
Handles == {"seq", "ra", "wr"}
Xfilenames == {"ark:a", "ark:bad"}
\* the caller numbers the entries it writes, as str(num) for num = 0, 1, ...,
\* and looks up the first two numbers
KeyAt(i) == ToString(i - 1)
Keys == {KeyAt(1), KeyAt(2)}
\* python values handed to write(): a vector, a matrix with both axes
\* non-zero, a matrix of shape (0,X) or (X,0), a bare str, a tuple of str
Values == {"vec", "mat", "degen", "str", "tup"}
NoKey == "-"
NoVal == "-"
NoRet == [key |-> NoKey, val |-> NoVal]

\* KaldiDataType members and their string values
MemberValue ==
    [BaseVector |-> "bv", DoubleVector |-> "dv", FloatVector |-> "fv",
     BaseMatrix |-> "bm", DoubleMatrix |-> "dm", FloatMatrix |-> "fm",
     WaveMatrix |-> "wm", Token |-> "t", TokenVector |-> "tv"]
Members == DOMAIN MemberValue
Tags == {MemberValue[m] : m \in Members}

\* what a caller may pass as kaldi_dtype: an enum member, or a str
DtypeArgs ==
    {[isEnum |-> TRUE, v |-> m] : m \in Members}
    \cup {[isEnum |-> FALSE, v |-> t] : t \in Tags \cup {"xx"}}

\* KaldiDataType(x): the member itself, the member with that value, or ValueError
KaldiDataType(x) ==
    IF x.isEnum THEN x.v
    ELSE IF x.v \in Tags
         THEN CHOOSE m \in Members : MemberValue[m] = x.v
         ELSE "ValueError"

\* KaldiDataType.is_double of a member, on a build whose base precision is
\* double (kd) or single
is_double(m, kd) ==
    IF MemberValue[m] \in {"bv", "bm", "wm"} THEN kd
    ELSE IF MemberValue[m] \in {"dv", "dm"} THEN TRUE
    ELSE FALSE

\* ---------------------------------------------------------- keyword arguments
NoKw == [n \in {} |-> TRUE]
Kw(name, val) == [n \in {name} |-> val]
KwGet(kwargs, name, default) ==
    IF name \in DOMAIN kwargs THEN kwargs[name] ELSE default
KwRest(kwargs, name) == DOMAIN kwargs \ {name}

\* --------------------------------------------------------- native instances
\* An instance of a native table class: the class, the location it was opened
\* on, the key map, the entries it reads, the cursor, and two history fields
\* (got: what next() has returned since Open; complete: whether the archive's
\* writer had been closed when the reader was opened; opt: the with_keys or
\* tv_error_on_str option of the open() call that created the instance).
None ==
    [cls |-> "None", xfilename |-> "", utt2spk |-> "", data |-> <<>>,
     pos |-> 1, got |-> <<>>, complete |-> FALSE, opt |-> FALSE]

NoFile ==
    [exists |-> FALSE, dtype |-> "None", entries |-> <<>>, put |-> <<>>,
     closed |-> FALSE]

VARIABLES
    kDoubleIsBase,   \* _i.kDoubleIsBase, fixed by the build
    internal,        \* self._internal of each handle
    with_keys,       \* self._with_keys of the sequential reader
    error_on_str,    \* self._error_on_str of the writer
    files,           \* the archives, by location
    orphans,         \* whether an instance was opened, never closed, and is
                     \* no longer referenced by its handle
    last,            \* the last call made on a handle and how it ended
    setup            \* setup.py: the variables of its two flag-partition loops

vars ==
    <<kDoubleIsBase, internal, with_keys, error_on_str, files, orphans, last, setup>>

\* ------------------------------------------------ native classes (_internal)
SeqClasses ==
    {"SequentialDoubleVectorReader", "SequentialFloatVectorReader",
     "SequentialDoubleMatrixReader", "SequentialFloatMatrixReader",
     "SequentialWaveReader", "SequentialTokenReader",
     "SequentialTokenVectorReader"}
RaMappedClasses ==
    {"RandomAccessDoubleVectorReaderMapped", "RandomAccessFloatVectorReaderMapped",
     "RandomAccessDoubleMatrixReaderMapped", "RandomAccessFloatMatrixReaderMapped"}
RaClasses ==
    {"RandomAccessDoubleVectorReader", "RandomAccessFloatVectorReader",
     "RandomAccessDoubleMatrixReader", "RandomAccessFloatMatrixReader",
     "RandomAccessWaveReader", "RandomAccessTokenReader",
     "RandomAccessTokenVectorReader"} \cup RaMappedClasses
WriterClasses ==
    {"DoubleVectorWriter", "FloatVectorWriter", "DoubleMatrixWriter",
     "FloatMatrixWriter", "WaveWriter", "TokenWriter", "TokenVectorWriter"}

\* the value type a native class reads or writes
ClsType(cls) ==
    CASE cls \in {"SequentialDoubleVectorReader", "RandomAccessDoubleVectorReader",
                  "RandomAccessDoubleVectorReaderMapped", "DoubleVectorWriter"}
            -> "DoubleVector"
      [] cls \in {"SequentialFloatVectorReader", "RandomAccessFloatVectorReader",
                  "RandomAccessFloatVectorReaderMapped", "FloatVectorWriter"}
            -> "FloatVector"
      [] cls \in {"SequentialDoubleMatrixReader", "RandomAccessDoubleMatrixReader",
                  "RandomAccessDoubleMatrixReaderMapped", "DoubleMatrixWriter"}
            -> "DoubleMatrix"
      [] cls \in {"SequentialFloatMatrixReader", "RandomAccessFloatMatrixReader",
                  "RandomAccessFloatMatrixReaderMapped", "FloatMatrixWriter"}
            -> "FloatMatrix"
      [] cls \in {"SequentialWaveReader", "RandomAccessWaveReader", "WaveWriter"}
            -> "WaveMatrix"
      [] cls \in {"SequentialTokenReader", "RandomAccessTokenReader", "TokenWriter"}
            -> "Token"
      [] cls \in {"SequentialTokenVectorReader", "RandomAccessTokenVectorReader",
                  "TokenVectorWriter"}
            -> "TokenVector"
      [] OTHER -> "None"

IsMatrixType(t) == t \in {"DoubleMatrix", "FloatMatrix", "WaveMatrix"}

\* whether the codec of type t takes the python value v
Accepts(t, v) ==
    CASE t \in {"DoubleVector", "FloatVector"} -> v = "vec"
      [] IsMatrixType(t) -> v \in {"mat", "degen"}
      [] t = "Token" -> v = "str"
      [] t = "TokenVector" -> v \in {"tup", "str"}
      [] OTHER -> FALSE


\* the value as the codec of type t stores it: a degenerate matrix becomes the
\* (0,0) matrix, a bare str written as a token sequence becomes its characters
Stored(t, v) ==
    IF IsMatrixType(t) /\ v = "degen" THEN "mat00"
    ELSE IF t = "TokenVector" /\ v = "str" THEN "chars"
    ELSE v

\* the key map read from the utt2spk location: "1" maps to "0", and "0" has
\* no mapping
Utt2Spk == [k \in {KeyAt(2)} |-> KeyAt(1)]

\* Open() of a reader class: the archive exists and holds the class's type
ReaderOpenOK(cls, xfilename, fs) ==
    /\ xfilename \in DOMAIN fs
    /\ fs[xfilename].exists
    /\ fs[xfilename].dtype = ClsType(cls)

\* Open() of a writer class: the location is writable
WriterOpenOK(cls, xfilename, fs) ==
    xfilename \in DOMAIN fs /\ xfilename # "ark:bad"

NewReader(cls, xfilename, utt2spk, opt, fs) ==
    [cls |-> cls, xfilename |-> xfilename, utt2spk |-> utt2spk,
     data |-> fs[xfilename].entries, pos |-> 1, got |-> <<>>,
     complete |-> fs[xfilename].closed, opt |-> opt]

NewWriter(cls, xfilename, opt) ==
    [cls |-> cls, xfilename |-> xfilename, utt2spk |-> "", data |-> <<>>,
     pos |-> 1, got |-> <<>>, complete |-> FALSE, opt |-> opt]

\* the archive a writer's Open() creates (or truncates)
CreatedFile(cls) ==
    [exists |-> TRUE, dtype |-> ClsType(cls), entries |-> <<>>, put |-> <<>>,
     closed |-> FALSE]

\* sequential reader: Done(), Key(), Value(), Next()
Done(inst) == inst.pos > Len(inst.data)
Key(inst) == inst.data[inst.pos].key
Value(inst) == inst.data[inst.pos].val
Advance(inst) == [inst EXCEPT !.pos = @ + 1]

\* random-access reader: HasKey(key), Value(key); a mapped reader translates
\* the key first, and a key without a mapping is not found
Lookup(inst, key) ==
    IF inst.cls \in RaMappedClasses
    THEN IF key \in DOMAIN Utt2Spk THEN Utt2Spk[key] ELSE NoKey
    ELSE key
HasKey(inst, key) ==
    \E i \in 1..Len(inst.data) : inst.data[i].key = Lookup(inst, key)
ValueOf(inst, key) ==
    LET i == CHOOSE j \in 1..Len(inst.data) :
                 /\ inst.data[j].key = Lookup(inst, key)
                 /\ \A l \in 1..(j - 1) : inst.data[l].key # Lookup(inst, key)
    IN inst.data[i].val

\* writer: Write(key, value) appends the stored form of the entry
WriteOK(inst, value) == Accepts(ClsType(inst.cls), value)
Written(inst, key, value, fs) ==
    IF inst.xfilename \in DOMAIN fs
    THEN [fs EXCEPT ![inst.xfilename] =
            [@ EXCEPT !.entries = Append(@, [key |-> key,
                                             val |-> Stored(ClsType(inst.cls), value)]),
                      !.put = Append(@, [key |-> key, val |-> value])]]
    ELSE fs

\* Close() of a writer makes the archive complete
Closed(inst, fs) ==
    IF inst.xfilename \in DOMAIN fs /\ inst.cls \in WriterClasses
    THEN [fs EXCEPT ![inst.xfilename] = [@ EXCEPT !.closed = TRUE]]
    ELSE fs

\* ------------------------------------------------------------ KaldiIO (base)
\* how a call ends: the exception raised ("None": it returned), the value
\* returned, the fields of the handle afterwards, the archives afterwards, the
\* native calls made, and whether an open instance lost its last reference
Outcome(exc, ret, inst, wk, eos, fs, calls, orphaned) ==
    [exc |-> exc, msg |-> "", ret |-> ret, internal |-> inst, with_keys |-> wk,
     error_on_str |-> eos, files |-> fs, calls |-> calls, orphaned |-> orphaned]

\* raise IOError('Unable to open file "{}" for ...'.format(xfilename)): the
\* message carries the location it was formatted with
UnableToOpen(o, xfilename) == [o EXCEPT !.msg = xfilename]

\* "if not self._internal"
IsClosed(self) == self = None

\* a base matrix type that is single precision on every build
BaseMatrix_single(kd) == "FloatMatrix"

\* KaldiIO._BaseVector, KaldiIO._BaseMatrix
BaseVector(kd) == IF kd THEN "DoubleVector" ELSE "FloatVector"
BaseMatrix(kd) == IF kd THEN "DoubleMatrix" ELSE "FloatMatrix"

\* KaldiIO.open: the base types resolve to the build's precision
Resolve(kaldi_dtype, kd) ==
    IF kaldi_dtype = "BaseVector" THEN BaseVector(kd)
    ELSE IF kaldi_dtype = "BaseMatrix" THEN BaseMatrix(kd)
    ELSE kaldi_dtype

\* ------------------------------------------------ KaldiSequentialTableReader
\* the dispatch with the wave branch missing
Seq_cls_partial(kaldi_dtype) ==
    CASE kaldi_dtype = "DoubleVector" -> "SequentialDoubleVectorReader"
      [] kaldi_dtype = "FloatVector" -> "SequentialFloatVectorReader"
      [] kaldi_dtype = "DoubleMatrix" -> "SequentialDoubleMatrixReader"
      [] kaldi_dtype = "FloatMatrix" -> "SequentialFloatMatrixReader"
      [] kaldi_dtype = "Token" -> "SequentialTokenReader"
      [] kaldi_dtype = "TokenVector" -> "SequentialTokenVectorReader"
      [] OTHER -> "None"

Seq_cls(kaldi_dtype) ==
    CASE kaldi_dtype = "DoubleVector" -> "SequentialDoubleVectorReader"
      [] kaldi_dtype = "FloatVector" -> "SequentialFloatVectorReader"
      [] kaldi_dtype = "DoubleMatrix" -> "SequentialDoubleMatrixReader"
      [] kaldi_dtype = "FloatMatrix" -> "SequentialFloatMatrixReader"
      [] kaldi_dtype = "WaveMatrix" -> "SequentialWaveReader"
      [] kaldi_dtype = "Token" -> "SequentialTokenReader"
      [] kaldi_dtype = "TokenVector" -> "SequentialTokenVectorReader"
      [] OTHER -> "None"

Seq_open(self, wk, xfilename, kaldi_dtype, kwargs, fs) ==
    LET arg == KwGet(kwargs, "with_keys", FALSE)
        cls == Seq_cls(kaldi_dtype)
    IN IF KwRest(kwargs, "with_keys") # {}
       THEN Outcome("TypeError", NoRet, self, wk, FALSE, fs, <<>>, FALSE)
       ELSE IF cls = "None"
       THEN Outcome("AssertionError", NoRet, self, arg, FALSE, fs, <<>>, FALSE)
       ELSE IF ~ReaderOpenOK(cls, xfilename, fs)
       THEN UnableToOpen(Outcome("IOError", NoRet, self, arg, FALSE, fs,
                                 <<cls, "Open">>, FALSE), xfilename)
       ELSE Outcome("None", NoRet, NewReader(cls, xfilename, "", arg, fs), arg,
                    FALSE, fs, <<cls, "Open">>, ~IsClosed(self))

\* close() without the "if self._internal" test
Seq_close_unguarded(self, wk, fs) ==
    Outcome("None", NoRet, None, wk, FALSE, Closed(self, fs), <<"Close">>, FALSE)

Seq_close(self, wk, fs) ==
    IF ~IsClosed(self)
    THEN Outcome("None", NoRet, None, wk, FALSE, Closed(self, fs), <<"Close">>, FALSE)
    ELSE Outcome("None", NoRet, self, wk, FALSE, fs, <<>>, FALSE)

\* __iter__ starting a new pass at the first entry
Seq_iter_rewinding(self, wk, fs) ==
    IF IsClosed(self)
    THEN Outcome("ValueError", NoRet, self, wk, FALSE, fs, <<>>, FALSE)
    ELSE Outcome("None", NoRet, [self EXCEPT !.pos = 1], wk, FALSE, fs, <<>>, FALSE)

Seq_iter(self, wk, fs) ==
    IF IsClosed(self)
    THEN Outcome("ValueError", NoRet, self, wk, FALSE, fs, <<>>, FALSE)
    ELSE Outcome("None", NoRet, self, wk, FALSE, fs, <<>>, FALSE)

\* __next__ returning None at the end instead of raising StopIteration
Seq_next_silent(self, wk, fs) ==
    IF IsClosed(self)
    THEN Outcome("ValueError", NoRet, self, wk, FALSE, fs, <<>>, FALSE)
    ELSE IF Done(self)
    THEN Outcome("None", NoRet, self, wk, FALSE, fs, <<"Done">>, FALSE)
    ELSE LET ret == [key |-> IF wk THEN Key(self) ELSE NoKey, val |-> Value(self)]
         IN Outcome("None", ret, [Advance(self) EXCEPT !.got = Append(@, ret)],
                    wk, FALSE, fs,
                    IF wk THEN <<"Done", "Value", "Key", "Next">>
                          ELSE <<"Done", "Value", "Next">>,
                    FALSE)

\* __next__ calling Next() twice
Seq_next_skipping(self, wk, fs) ==
    IF IsClosed(self)
    THEN Outcome("ValueError", NoRet, self, wk, FALSE, fs, <<>>, FALSE)
    ELSE IF Done(self)
    THEN Outcome("StopIteration", NoRet, self, wk, FALSE, fs, <<"Done">>, FALSE)
    ELSE LET ret == [key |-> IF wk THEN Key(self) ELSE NoKey, val |-> Value(self)]
         IN Outcome("None", ret,
                    [Advance(Advance(self)) EXCEPT !.got = Append(@, ret)],
                    wk, FALSE, fs,
                    IF wk THEN <<"Done", "Value", "Key", "Next", "Next">>
                          ELSE <<"Done", "Value", "Next", "Next">>,
                    FALSE)

Seq_next(self, wk, fs) ==
    IF IsClosed(self)
    THEN Outcome("ValueError", NoRet, self, wk, FALSE, fs, <<>>, FALSE)
    ELSE IF Done(self)
    THEN Outcome("StopIteration", NoRet, self, wk, FALSE, fs, <<"Done">>, FALSE)
    ELSE LET ret == [key |-> IF wk THEN Key(self) ELSE NoKey, val |-> Value(self)]
         IN Outcome("None", ret, [Advance(self) EXCEPT !.got = Append(@, ret)],
                    wk, FALSE, fs,
                    IF wk THEN <<"Done", "Value", "Key", "Next">>
                          ELSE <<"Done", "Value", "Next">>,
                    FALSE)

\* ---------------------------------------------- KaldiRandomAccessTableReader
Ra_cls(kaldi_dtype, utt2spk) ==
    CASE kaldi_dtype = "DoubleVector" ->
            IF utt2spk # "" THEN "RandomAccessDoubleVectorReaderMapped"
                            ELSE "RandomAccessDoubleVectorReader"
      [] kaldi_dtype = "FloatVector" ->
            IF utt2spk # "" THEN "RandomAccessFloatVectorReaderMapped"
                            ELSE "RandomAccessFloatVectorReader"
      [] kaldi_dtype = "DoubleMatrix" ->
            IF utt2spk # "" THEN "RandomAccessDoubleMatrixReaderMapped"
                            ELSE "RandomAccessDoubleMatrixReader"
      [] kaldi_dtype = "FloatMatrix" ->
            IF utt2spk # "" THEN "RandomAccessFloatMatrixReaderMapped"
                            ELSE "RandomAccessFloatMatrixReader"
      [] kaldi_dtype = "WaveMatrix" -> "RandomAccessWaveReader"
      [] kaldi_dtype = "Token" -> "RandomAccessTokenReader"
      [] kaldi_dtype = "TokenVector" -> "RandomAccessTokenVectorReader"
      [] OTHER -> "None"

\* the native calls of _open: the class instantiated, and Open(xfilename) or
\* Open(xfilename, utt2spk)
Ra_calls(cls, utt2spk) ==
    IF utt2spk # "" THEN <<cls, "Open", "utt2spk">> ELSE <<cls, "Open">>

\* _open storing the instance before it tests the result of Open()
Ra_open_storing(self, xfilename, kaldi_dtype, kwargs, fs) ==
    LET utt2spk == KwGet(kwargs, "utt2spk", "")
        cls == Ra_cls(kaldi_dtype, utt2spk)
        calls == Ra_calls(cls, utt2spk)
    IN IF KwRest(kwargs, "utt2spk") # {}
       THEN Outcome("TypeError", NoRet, self, FALSE, FALSE, fs, <<>>, FALSE)
       ELSE IF cls = "None"
       THEN Outcome("AssertionError", NoRet, self, FALSE, FALSE, fs, <<>>, FALSE)
       ELSE IF utt2spk # "" /\ cls \notin RaMappedClasses
       THEN Outcome("TypeError", NoRet, self, FALSE, FALSE, fs, calls, FALSE)
       ELSE IF ~ReaderOpenOK(cls, xfilename, fs)
       THEN UnableToOpen(Outcome("IOError", NoRet,
                                 NewReader(cls, xfilename, utt2spk, FALSE, fs),
                                 FALSE, FALSE, fs, calls, FALSE), xfilename)
       ELSE Outcome("None", NoRet, NewReader(cls, xfilename, utt2spk, FALSE, fs),
                    FALSE, FALSE, fs, calls, ~IsClosed(self))

\* Open(xfilename, utt2spk) exists on the mapped classes only: the other
\* classes take the location alone and reject the call
Ra_open(self, xfilename, kaldi_dtype, kwargs, fs) ==
    LET utt2spk == KwGet(kwargs, "utt2spk", "")
        cls == Ra_cls(kaldi_dtype, utt2spk)
        calls == Ra_calls(cls, utt2spk)
    IN IF KwRest(kwargs, "utt2spk") # {}
       THEN Outcome("TypeError", NoRet, self, FALSE, FALSE, fs, <<>>, FALSE)
       ELSE IF cls = "None"
       THEN Outcome("AssertionError", NoRet, self, FALSE, FALSE, fs, <<>>, FALSE)
       ELSE IF utt2spk # "" /\ cls \notin RaMappedClasses
       THEN Outcome("TypeError", NoRet, self, FALSE, FALSE, fs, calls, FALSE)
       ELSE IF ~ReaderOpenOK(cls, xfilename, fs)
       THEN UnableToOpen(Outcome("IOError", NoRet, self, FALSE, FALSE, fs, calls,
                                 FALSE), xfilename)
       ELSE Outcome("None", NoRet, NewReader(cls, xfilename, utt2spk, FALSE, fs),
                    FALSE, FALSE, fs, calls, ~IsClosed(self))

Ra_close(self, fs) ==
    IF ~IsClosed(self)
    THEN Outcome("None", NoRet, None, FALSE, FALSE, Closed(self, fs), <<"Close">>, FALSE)
    ELSE Outcome("None", NoRet, self, FALSE, FALSE, fs, <<>>, FALSE)

\* get() ignoring will_raise
Ra_get_lenient(self, key, will_raise, fs) ==
    IF IsClosed(self)
    THEN Outcome("ValueError", NoRet, self, FALSE, FALSE, fs, <<>>, FALSE)
    ELSE IF ~HasKey(self, key)
    THEN Outcome("None", NoRet, self, FALSE, FALSE, fs, <<"HasKey">>, FALSE)
    ELSE Outcome("None", [key |-> NoKey, val |-> ValueOf(self, key)], self,
                 FALSE, FALSE, fs, <<"HasKey", "Value">>, FALSE)

\* get() dropping the entries of the reader once a value has been returned
Ra_get_consuming(self, key, will_raise, fs) ==
    IF IsClosed(self)
    THEN Outcome("ValueError", NoRet, self, FALSE, FALSE, fs, <<>>, FALSE)
    ELSE IF ~HasKey(self, key)
    THEN IF will_raise
         THEN Outcome("KeyError", NoRet, self, FALSE, FALSE, fs, <<"HasKey">>, FALSE)
         ELSE Outcome("None", NoRet, self, FALSE, FALSE, fs, <<"HasKey">>, FALSE)
    ELSE Outcome("None", [key |-> NoKey, val |-> ValueOf(self, key)],
                 [self EXCEPT !.data = <<>>], FALSE, FALSE, fs,
                 <<"HasKey", "Value">>, FALSE)

Ra_get(self, key, will_raise, fs) ==
    IF IsClosed(self)
    THEN Outcome("ValueError", NoRet, self, FALSE, FALSE, fs, <<>>, FALSE)
    ELSE IF ~HasKey(self, key)
    THEN IF will_raise
         THEN Outcome("KeyError", NoRet, self, FALSE, FALSE, fs, <<"HasKey">>, FALSE)
         ELSE Outcome("None", NoRet, self, FALSE, FALSE, fs, <<"HasKey">>, FALSE)
    ELSE Outcome("None", [key |-> NoKey, val |-> ValueOf(self, key)], self,
                 FALSE, FALSE, fs, <<"HasKey", "Value">>, FALSE)

Ra_getitem(self, key, fs) == Ra_get(self, key, TRUE, fs)

\* ----------------------------------------------------------- KaldiTableWriter
Wr_cls(kaldi_dtype) ==
    CASE kaldi_dtype = "DoubleVector" -> "DoubleVectorWriter"
      [] kaldi_dtype = "FloatVector" -> "FloatVectorWriter"
      [] kaldi_dtype = "DoubleMatrix" -> "DoubleMatrixWriter"
      [] kaldi_dtype = "FloatMatrix" -> "FloatMatrixWriter"
      [] kaldi_dtype = "WaveMatrix" -> "WaveWriter"
      [] kaldi_dtype = "Token" -> "TokenWriter"
      [] kaldi_dtype = "TokenVector" -> "TokenVectorWriter"
      [] OTHER -> "None"

Wr_open(self, eos, xfilename, kaldi_dtype, kwargs, fs) ==
    LET tv_error_on_str == KwGet(kwargs, "tv_error_on_str", TRUE)
        cls == Wr_cls(kaldi_dtype)
        flag == IF kaldi_dtype = "TokenVector" THEN tv_error_on_str ELSE FALSE
    IN IF KwRest(kwargs, "tv_error_on_str") # {}
       THEN Outcome("TypeError", NoRet, self, FALSE, eos, fs, <<>>, FALSE)
       ELSE IF cls = "None"
       THEN Outcome("AssertionError", NoRet, self, FALSE, flag, fs, <<>>, FALSE)
       ELSE IF ~WriterOpenOK(cls, xfilename, fs)
       THEN UnableToOpen(Outcome("IOError", NoRet, self, FALSE, flag, fs,
                                 <<cls, "Open">>, FALSE), xfilename)
       ELSE Outcome("None", NoRet, NewWriter(cls, xfilename, flag), FALSE,
                    flag, [fs EXCEPT ![xfilename] = CreatedFile(cls)],
                    <<cls, "Open">>, ~IsClosed(self))

Wr_close(self, eos, fs) ==
    IF ~IsClosed(self)
    THEN Outcome("None", NoRet, None, FALSE, eos, Closed(self, fs), <<"Close">>, FALSE)
    ELSE Outcome("None", NoRet, self, FALSE, eos, fs, <<>>, FALSE)

\* isinstance(value, str)
IsStr(value) == value = "str"

\* write() without the closed-file test
Wr_write_unchecked(self, eos, key, value, fs) ==
    IF eos /\ IsStr(value)
    THEN Outcome("TypeError", NoRet, self, FALSE, eos, fs, <<>>, FALSE)
    ELSE IF ~WriteOK(self, value)
    THEN Outcome("TypeError", NoRet, self, FALSE, eos, fs, <<"Write">>, FALSE)
    ELSE Outcome("None", NoRet, self, FALSE, eos, Written(self, key, value, fs),
                 <<"Write">>, FALSE)

\* write() refusing a matrix with a zero axis
Wr_write_refusing(self, eos, key, value, fs) ==
    IF IsClosed(self)
    THEN Outcome("ValueError", NoRet, self, FALSE, eos, fs, <<>>, FALSE)
    ELSE IF eos /\ IsStr(value)
    THEN Outcome("TypeError", NoRet, self, FALSE, eos, fs, <<>>, FALSE)
    ELSE IF ~WriteOK(self, value) \/ value = "degen"
    THEN Outcome("TypeError", NoRet, self, FALSE, eos, fs, <<"Write">>, FALSE)
    ELSE Outcome("None", NoRet, self, FALSE, eos, Written(self, key, value, fs),
                 <<"Write">>, FALSE)

Wr_write(self, eos, key, value, fs) ==
    IF IsClosed(self)
    THEN Outcome("ValueError", NoRet, self, FALSE, eos, fs, <<>>, FALSE)
    ELSE IF eos /\ IsStr(value)
    THEN Outcome("TypeError", NoRet, self, FALSE, eos, fs, <<>>, FALSE)
    ELSE IF ~WriteOK(self, value)
    THEN Outcome("TypeError", NoRet, self, FALSE, eos, fs, <<"Write">>, FALSE)
    ELSE Outcome("None", NoRet, self, FALSE, eos, Written(self, key, value, fs),
                 <<"Write">>, FALSE)

\* KaldiIO.open: convert the tag, resolve the base types, call the subclass's
\* _open; an unknown tag raises before anything else happens
KaldiIO_open(h, self, wk, eos, xfilename, arg, kwargs, kd, fs) ==
    LET kaldi_dtype == KaldiDataType(arg)
    IN IF kaldi_dtype = "ValueError"
       THEN Outcome("ValueError", NoRet, self, wk, eos, fs, <<>>, FALSE)
       ELSE CASE h = "seq" ->
                   Seq_open(self, wk, xfilename, Resolve(kaldi_dtype, kd), kwargs, fs)
              [] h = "ra" ->
                   Ra_open(self, xfilename, Resolve(kaldi_dtype, kd), kwargs, fs)
              [] h = "wr" ->
                   Wr_open(self, eos, xfilename, Resolve(kaldi_dtype, kd), kwargs, fs)

\* close() of the handle's class
KaldiIO_close(h, self, wk, eos, fs) ==
    CASE h = "seq" -> Seq_close(self, wk, fs)
      [] h = "ra" -> Ra_close(self, fs)
      [] h = "wr" -> Wr_close(self, eos, fs)

\* KaldiIO.__enter__: returns self
KaldiIO_enter(h, self, wk, eos, fs) ==
    Outcome("None", NoRet, self, wk, eos, fs, <<>>, FALSE)

\* __exit__ that leaves the handle as it is
KaldiIO_exit_noclose(h, self, wk, eos, exception_type, fs) ==
    Outcome("None", NoRet, self, wk, eos, fs, <<>>, FALSE)

\* KaldiIO.__exit__: close(), whatever the exception; it returns None, so an
\* exception raised in the block is not suppressed
KaldiIO_exit(h, self, wk, eos, exception_type, fs) ==
    KaldiIO_close(h, self, wk, eos, fs)

\* KaldiIO.__init__ after the subclass's __init__ has set the fields of the
\* new handle: open() if both xfilename and kaldi_dtype are among the keyword
\* arguments, TypeError if one of them is, nothing otherwise (c.xfilename = ""
\* and c.arg = NoDtype stand for the argument left out)
NoDtype == [isEnum |-> FALSE, v |-> "-"]

\* a constructor that never opens
KaldiIO_init_closed(h, c, kd, fs) ==
    IF (c.xfilename # "") # (c.arg # NoDtype)
    THEN Outcome("TypeError", NoRet, None, FALSE, FALSE, fs, <<>>, FALSE)
    ELSE Outcome("None", NoRet, None, FALSE, FALSE, fs, <<>>, FALSE)

KaldiIO_init(h, c, kd, fs) ==
    IF c.xfilename # "" /\ c.arg # NoDtype
    THEN KaldiIO_open(h, None, FALSE, FALSE, c.xfilename, c.arg, c.kwargs, kd, fs)
    ELSE IF c.xfilename # "" \/ c.arg # NoDtype
    THEN Outcome("TypeError", NoRet, None, FALSE, FALSE, fs, <<>>, FALSE)
    ELSE Outcome("None", NoRet, None, FALSE, FALSE, fs, <<>>, FALSE)

\* the class the factory instantiates for a mode; a factory without 'w+'
ModeKind_documented(mode) ==
    CASE mode = "r" -> "seq"
      [] mode = "r+" -> "ra"
      [] mode = "w" -> "wr"
      [] OTHER -> "None"

ModeKind(mode) ==
    CASE mode = "r" -> "seq"
      [] mode = "r+" -> "ra"
      [] mode \in {"w", "w+"} -> "wr"
      [] OTHER -> "None"

\* the factory open(xfilename, kaldi_dtype, mode, **kwargs)
tables_open(c, mode, kd, fs) ==
    IF ModeKind(mode) = "None"
    THEN Outcome("ValueError", NoRet, None, FALSE, FALSE, fs, <<>>, FALSE)
    ELSE KaldiIO_init(ModeKind(mode), c, kd, fs)

\* ------------------------------------------------------------------- actions
Call(h, op, key, value, will_raise, dtype, o) ==
    [h |-> h, op |-> op, key |-> key, value |-> value, will_raise |-> will_raise,
     xfilename |-> "", dtype |-> dtype, kwargs |-> NoKw, mode |-> "",
     exc |-> o.exc,
     msg |-> o.msg, ret |-> o.ret, calls |-> o.calls]

NoCall ==
    [h |-> "-", op |-> "-", key |-> NoKey, value |-> NoVal, will_raise |-> FALSE,
     xfilename |-> "", dtype |-> NoDtype, kwargs |-> NoKw, mode |-> "",
     exc |-> "None",
     msg |-> "", ret |-> NoRet, calls |-> <<>>]

Orphaned(b, o) == b \/ o.orphaned

\* setup.py is not running
NoSetup ==
    [phase |-> "none", cflags |-> <<>>, libs |-> <<>>, args |-> <<>>, idx |-> 0,
     kaldi_compiler_args |-> <<>>, kaldi_include_dirs |-> {},
     kaldi_library_dirs |-> {}, kaldi_libraries |-> {}, define_symbols |-> {},
     exc |-> "None"]

\* the handles as constructed without arguments, and no archive on disk
Constructed ==
    /\ internal = [h \in Handles |-> None]
    /\ with_keys = FALSE
    /\ error_on_str = FALSE
    /\ files = [x \in Xfilenames |-> NoFile]
    /\ orphans = FALSE
    /\ last = NoCall
    /\ setup = NoSetup

\* Kaldi's default build is single precision
Init == kDoubleIsBase = FALSE /\ Constructed

\* handles that keep their instance in one attribute of the class: a call
\* that closes one handle closes them all
Effect_shared(h, o) ==
    /\ internal' = IF IsClosed(o.internal) THEN [g \in Handles |-> None]
                   ELSE [internal EXCEPT ![h] = o.internal]
    /\ with_keys' = IF h = "seq" THEN o.with_keys ELSE with_keys
    /\ error_on_str' = IF h = "wr" THEN o.error_on_str ELSE error_on_str
    /\ files' = o.files
    /\ orphans' = Orphaned(orphans, o)
    /\ UNCHANGED <<kDoubleIsBase, setup>>

\* the handle's fields after a call; _with_keys exists on the sequential
\* reader only, _error_on_str on the writer only
Effect(h, o) ==
    /\ internal' = [internal EXCEPT ![h] = o.internal]
    /\ with_keys' = IF h = "seq" THEN o.with_keys ELSE with_keys
    /\ error_on_str' = IF h = "wr" THEN o.error_on_str ELSE error_on_str
    /\ files' = o.files
    /\ orphans' = Orphaned(orphans, o)
    /\ UNCHANGED <<kDoubleIsBase, setup>>

\* the caller works on one table at a time: a handle is used while the other
\* handles are closed
Alone(h) == \A g \in Handles \ {h} : IsClosed(internal[g])

\* the tags the caller passes in the I/O scenarios: a matrix type, the token
\* type, the token-sequence type (as enum member), an unknown tag
IoDtypeArgs ==
    {[isEnum |-> FALSE, v |-> "fm"], [isEnum |-> FALSE, v |-> "t"],
     [isEnum |-> TRUE, v |-> "TokenVector"], [isEnum |-> FALSE, v |-> "xx"]}

\* the arguments of one open() call
OpenArgs(xfilenames, args, kws) ==
    {[xfilename |-> x, arg |-> a, kwargs |-> k] :
        x \in xfilenames, a \in args, k \in kws}

\* the option of open() that each kind of handle takes, with a value other
\* than its default
OwnKw(h) ==
    CASE h = "seq" -> Kw("with_keys", TRUE)
      [] h = "ra" -> Kw("utt2spk", "ark:map")
      [] h = "wr" -> Kw("tv_error_on_str", FALSE)

\* the option of open() that belongs to another kind of handle
ForeignKw(h) ==
    IF h = "seq" THEN Kw("utt2spk", "ark:map") ELSE Kw("with_keys", TRUE)

\* the open() calls of the I/O scenarios: each location with each known tag,
\* with the handle's own options or none; the unknown tag; an option of
\* another kind of handle
IoOpenArgs(h) ==
    OpenArgs(Xfilenames, IoDtypeArgs \ {[isEnum |-> FALSE, v |-> "xx"]},
             {NoKw, OwnKw(h)})
    \cup OpenArgs({"ark:a"}, {[isEnum |-> FALSE, v |-> "xx"]}, {NoKw})
    \cup OpenArgs({"ark:a"}, {[isEnum |-> FALSE, v |-> "fm"]}, {ForeignKw(h)})

Open(h, choices) ==
    /\ Alone(h)
    /\ \E c \in choices :
        LET o == KaldiIO_open(h, internal[h], with_keys, error_on_str, c.xfilename,
                              c.arg, c.kwargs, kDoubleIsBase, files)
           IN /\ Effect(h, o)
              /\ last' = [Call(h, "open", NoKey, NoVal, FALSE, c.arg, o)
                            EXCEPT !.xfilename = c.xfilename, !.kwargs = c.kwargs]

SeqOpen == Open("seq", IoOpenArgs("seq"))
RaOpen == Open("ra", IoOpenArgs("ra"))
WrOpen == Open("wr", IoOpenArgs("wr"))

\* the arguments of the constructors and of the factory in the I/O
\* scenarios: a matrix archive, with the handle's own option or none, and an
\* unwritable location
NewArgs(h) ==
    OpenArgs({"ark:a"}, {[isEnum |-> FALSE, v |-> "fm"]}, {NoKw, OwnKw(h)})
    \cup OpenArgs({"ark:bad"}, {[isEnum |-> FALSE, v |-> "fm"]}, {NoKw})

\* the same, and the constructor calls that leave out an argument
InitArgs(h) ==
    NewArgs(h)
    \cup OpenArgs({"ark:a", ""}, {NoDtype}, {NoKw})
    \cup OpenArgs({""}, {[isEnum |-> FALSE, v |-> "fm"]}, {NoKw})

Modes == {"r", "r+", "w", "w+", "a"}

\* a constructor that raises creates no handle; one that returns creates a
\* handle that takes the place of the closed handle of its kind
Created(h, o) ==
    IF o.exc = "None"
    THEN Effect(h, o)
    ELSE UNCHANGED <<kDoubleIsBase, internal, with_keys, error_on_str, files,
                     orphans, setup>>

Construct ==
    \E h \in Handles :
        /\ Alone(h) /\ IsClosed(internal[h])
        /\ \E c \in InitArgs(h) :
              LET o == KaldiIO_init(h, c, kDoubleIsBase, files)
              IN /\ Created(h, o)
                 /\ last' = [Call(h, "init", NoKey, NoVal, FALSE, c.arg, o)
                               EXCEPT !.xfilename = c.xfilename,
                                      !.kwargs = c.kwargs]

\* the factory calls: for a mode without a class the arguments do not matter
FactoryArgs(mode) ==
    IF ModeKind(mode) = "None"
    THEN OpenArgs({"ark:a"}, {[isEnum |-> FALSE, v |-> "fm"]}, {NoKw})
    ELSE NewArgs(ModeKind(mode))

Factory ==
    \E mode \in Modes :
        LET h == ModeKind(mode)
        IN /\ \A g \in Handles : IsClosed(internal[g])
           /\ \E c \in FactoryArgs(mode) :
                 LET o == tables_open(c, mode, kDoubleIsBase, files)
                 IN /\ IF h = "None"
                       THEN UNCHANGED <<kDoubleIsBase, internal, with_keys,
                                        error_on_str, files, orphans, setup>>
                       ELSE Created(h, o)
                    /\ last' = [Call(h, "factory", NoKey, NoVal, FALSE, c.arg, o)
                                  EXCEPT !.xfilename = c.xfilename,
                                         !.kwargs = c.kwargs, !.mode = mode]

SeqClose ==
    /\ Alone("seq")
    /\ LET o == Seq_close(internal["seq"], with_keys, files)
       IN /\ Effect("seq", o)
          /\ last' = Call("seq", "close", NoKey, NoVal, FALSE, NoDtype, o)

SeqIter ==
    /\ Alone("seq")
    /\ LET o == Seq_iter(internal["seq"], with_keys, files)
       IN /\ Effect("seq", o)
          /\ last' = Call("seq", "iter", NoKey, NoVal, FALSE, NoDtype, o)

SeqNext ==
    /\ Alone("seq")
    /\ LET o == Seq_next(internal["seq"], with_keys, files)
       IN /\ Effect("seq", o)
          /\ last' = Call("seq", "next", NoKey, NoVal, FALSE, NoDtype, o)

RaClose ==
    /\ Alone("ra")
    /\ LET o == Ra_close(internal["ra"], files)
       IN /\ Effect("ra", o)
          /\ last' = Call("ra", "close", NoKey, NoVal, FALSE, NoDtype, o)

RaGet ==
    \E key \in Keys, will_raise \in BOOLEAN :
        /\ Alone("ra")
        /\ LET o == Ra_get(internal["ra"], key, will_raise, files)
           IN /\ Effect("ra", o)
              /\ last' = Call("ra", "get", key, NoVal, will_raise, NoDtype, o)

RaGetitem ==
    \E key \in Keys :
        /\ Alone("ra")
        /\ LET o == Ra_getitem(internal["ra"], key, files)
           IN /\ Effect("ra", o)
              /\ last' = Call("ra", "getitem", key, NoVal, TRUE, NoDtype, o)

WrClose ==
    /\ Alone("wr")
    /\ LET o == Wr_close(internal["wr"], error_on_str, files)
       IN /\ Effect("wr", o)
          /\ last' = Call("wr", "close", NoKey, NoVal, FALSE, NoDtype, o)

\* the archive a writer instance appends to holds at most maxlen entries
Write(values, maxlen) ==
    \E value \in values :
        /\ Alone("wr")
        /\ IF IsClosed(internal["wr"]) THEN TRUE
           ELSE Len(files[internal["wr"].xfilename].entries) < maxlen
        /\ LET key == IF IsClosed(internal["wr"]) THEN KeyAt(1)
                      ELSE KeyAt(Len(files[internal["wr"].xfilename].entries) + 1)
               o == Wr_write(internal["wr"], error_on_str, key, value, files)
              IN /\ Effect("wr", o)
                 /\ last' = Call("wr", "write", NoKey, value, FALSE, NoDtype, o)

\* what a with-block ends with: nothing, or an exception raised inside it
ExceptionTypes == {NoVal, "RuntimeError"}

\* entering a with-block on a handle
Enter ==
    \E h \in Handles :
        /\ Alone(h)
        /\ LET o == KaldiIO_enter(h, internal[h], with_keys, error_on_str, files)
           IN /\ Effect(h, o)
              /\ last' = Call(h, "enter", NoKey, NoVal, FALSE, NoDtype, o)

\* leaving a with-block on a handle
Exit ==
    \E h \in Handles, exception_type \in ExceptionTypes :
        /\ Alone(h)
        /\ LET o == KaldiIO_exit(h, internal[h], with_keys, error_on_str,
                                 exception_type, files)
           IN /\ Effect(h, o)
              /\ last' = Call(h, "exit", NoKey, exception_type, FALSE, NoDtype, o)

\* the I/O scenarios write matrices, strings and tuples
WrWrite == Write(Values \ {"vec"}, MaxLen)

Next ==
    \/ SeqOpen \/ SeqClose \/ SeqIter \/ SeqNext
    \/ RaOpen \/ RaClose \/ RaGet \/ RaGetitem
    \/ WrOpen \/ WrClose \/ WrWrite
    \/ Enter \/ Exit
    \/ Construct \/ Factory

Spec == Init /\ [][Next]_vars

\* ------------------------------------------- the scenarios over every type
\* Both builds and every tag (as str and as enum member), with no keyword
\* argument, a key map or wav_with_info; open() is called on closed handles
\* with a writable location, and archives are short.
InitTypes == kDoubleIsBase \in BOOLEAN /\ Constructed

TypesKwargs == {NoKw, Kw("utt2spk", "ark:map"), Kw("wav_with_info", TRUE)}

TypesOpen(h) ==
    IsClosed(internal[h]) /\ Open(h, OpenArgs({"ark:a"}, DtypeArgs, TypesKwargs))

TypesSeqOpen == TypesOpen("seq")
TypesRaOpen == TypesOpen("ra")
TypesWrOpen == TypesOpen("wr")
TypesWrWrite == Write(Values \ {"degen"}, TypesMaxLen)

NextTypes ==
    \/ TypesSeqOpen \/ SeqClose \/ SeqIter \/ SeqNext
    \/ TypesRaOpen \/ RaClose \/ RaGet \/ RaGetitem
    \/ TypesWrOpen \/ WrClose \/ TypesWrWrite

SpecTypes == InitTypes /\ [][NextTypes]_vars

\* ------------------------------- the scenarios with several handles in use
\* Each handle works on a location of its own, and the calls on the three
\* handles interleave freely: the readers on two archives of tokens written
\* earlier, the writer on a location where it creates its archive.
ConcMaxLen == 1      \* entries the writer appends in these scenarios

ConcLocation(h) ==
    CASE h = "seq" -> "ark:s" [] h = "ra" -> "ark:r" [] h = "wr" -> "ark:a"

TokenArchive ==
    LET written == <<[key |-> KeyAt(1), val |-> "str"], [key |-> KeyAt(2), val |-> "str"]>>
    IN [exists |-> TRUE, dtype |-> "Token", entries |-> written, put |-> written,
        closed |-> TRUE]

InitConc ==
    /\ kDoubleIsBase = FALSE
    /\ internal = [h \in Handles |-> None]
    /\ with_keys = FALSE
    /\ error_on_str = FALSE
    /\ files = [x \in {ConcLocation(h) : h \in Handles} |->
                  IF x = ConcLocation("wr") THEN NoFile ELSE TokenArchive]
    /\ orphans = FALSE
    /\ last = NoCall
    /\ setup = NoSetup

\* open() on the handle's location: the token type (the readers' archives
\* hold tokens) or a matrix type, with the handle's own option or none
ConcOpenArgs(h) ==
    OpenArgs({ConcLocation(h)},
             {[isEnum |-> FALSE, v |-> "t"], [isEnum |-> FALSE, v |-> "fm"]},
             {NoKw, OwnKw(h)})

ConcOpen ==
    \E h \in Handles : \E c \in ConcOpenArgs(h) :
        LET o == KaldiIO_open(h, internal[h], with_keys, error_on_str, c.xfilename,
                              c.arg, c.kwargs, kDoubleIsBase, files)
        IN /\ Effect(h, o)
           /\ last' = [Call(h, "open", NoKey, NoVal, FALSE, c.arg, o)
                         EXCEPT !.xfilename = c.xfilename, !.kwargs = c.kwargs]

ConcClose ==
    \E h \in Handles :
        LET o == KaldiIO_close(h, internal[h], with_keys, error_on_str, files)
        IN /\ Effect(h, o)
           /\ last' = Call(h, "close", NoKey, NoVal, FALSE, NoDtype, o)

ConcNext ==
    LET o == Seq_next(internal["seq"], with_keys, files)
    IN /\ Effect("seq", o)
       /\ last' = Call("seq", "next", NoKey, NoVal, FALSE, NoDtype, o)

ConcGet ==
    \E key \in Keys :
        LET o == Ra_get(internal["ra"], key, FALSE, files)
        IN /\ Effect("ra", o)
           /\ last' = Call("ra", "get", key, NoVal, FALSE, NoDtype, o)

ConcWrite ==
    \E value \in {"str", "mat"} :
        /\ IF IsClosed(internal["wr"]) THEN TRUE
           ELSE Len(files[internal["wr"].xfilename].entries) < ConcMaxLen
        /\ LET o == Wr_write(internal["wr"], error_on_str, KeyAt(1), value, files)
           IN /\ Effect("wr", o)
              /\ last' = Call("wr", "write", NoKey, value, FALSE, NoDtype, o)

NextConc == ConcOpen \/ ConcClose \/ ConcNext \/ ConcGet \/ ConcWrite

SpecConc == InitConc /\ [][NextConc]_vars

\* ------------------------------------------- setup.py: the pkg-config flags
\* A token is the sequence of its characters. The lists are what shlex.split
\* returns for the output of pkg-config: at most SetupMaxLen tokens each.
SetupMaxLen == 2

\* tok[:2] and tok[2:]
Prefix2(tok) == SubSeq(tok, 1, IF Len(tok) < 2 THEN Len(tok) ELSE 2)
From2(tok) == SubSeq(tok, 3, Len(tok))

\* del args[idx], with idx counted from 1
Del(args, idx) == SubSeq(args, 1, idx - 1) \o SubSeq(args, idx + 1, Len(args))

\* tokens of pkg-config --cflags: '-I' alone, '-Ia', a word, '-Dx', '-O'
CflagsTokens ==
    {<<"-", "I">>, <<"-", "I", "a">>, <<"b">>, <<"-", "D", "x">>, <<"-", "O">>}
\* tokens of pkg-config --libs: '-L' alone, '-La', a word, '-lm', '-p'
LibsTokens ==
    {<<"-", "L">>, <<"-", "L", "a">>, <<"b">>, <<"-", "l", "m">>, <<"-", "p">>}

\* the lists of at most n tokens
Lists(tokens, n) == UNION {[1..k -> tokens] : k \in 0..n}

\* the sets before the loops: numpy's include directory, the kaldi libraries
NumpyInclude == <<"n", "p">>
KaldiLibraries == {<<"k", "b">>, <<"k", "u">>}

\* the state of the handles does not matter to setup.py
InitSetup ==
    /\ kDoubleIsBase = FALSE
    /\ internal = [h \in Handles |-> None]
    /\ with_keys = FALSE
    /\ error_on_str = FALSE
    /\ files = [x \in Xfilenames |-> NoFile]
    /\ orphans = FALSE
    /\ last = NoCall
    /\ \E cflags \in Lists(CflagsTokens, SetupMaxLen) :
          setup = [NoSetup EXCEPT !.phase = "cflags", !.cflags = cflags,
                                  !.args = cflags, !.idx = 1,
                                  !.kaldi_include_dirs = {NumpyInclude},
                                  !.kaldi_libraries = KaldiLibraries]

\* one iteration of the first loop (setup.py 39-51); reading args[idx] after a
\* lone '-I' at the end of the list was deleted raises IndexError
CompilerIteration(st) ==
    LET args == st.args
        idx == st.idx
    IN IF Prefix2(args[idx]) = <<"-", "I">>
       THEN IF Len(args[idx]) = 2
            THEN IF idx > Len(Del(args, idx))
                 THEN [st EXCEPT !.args = Del(args, idx), !.exc = "IndexError",
                                 !.phase = "raised"]
                 ELSE [st EXCEPT !.kaldi_include_dirs = @ \cup {Del(args, idx)[idx]},
                                 !.args = Del(Del(args, idx), idx)]
            ELSE [st EXCEPT !.kaldi_include_dirs = @ \cup {From2(args[idx])},
                            !.args = Del(args, idx)]
       ELSE IF Prefix2(args[idx]) = <<"-", "D">>
       THEN [st EXCEPT !.define_symbols = @ \cup {args[idx]}, !.idx = idx + 1]
       ELSE [st EXCEPT !.args = Del(args, idx)]

\* one iteration of the second loop (setup.py 55-67)
LinkerIteration(st) ==
    LET args == st.args
        idx == st.idx
    IN IF Prefix2(args[idx]) = <<"-", "L">>
       THEN IF Len(args[idx]) = 2
            THEN IF idx > Len(Del(args, idx))
                 THEN [st EXCEPT !.args = Del(args, idx), !.exc = "IndexError",
                                 !.phase = "raised"]
                 ELSE [st EXCEPT !.kaldi_library_dirs = @ \cup {Del(args, idx)[idx]},
                                 !.args = Del(Del(args, idx), idx)]
            ELSE [st EXCEPT !.kaldi_library_dirs = @ \cup {From2(args[idx])},
                            !.args = Del(args, idx)]
       ELSE IF Prefix2(args[idx]) = <<"-", "l">>
       THEN [st EXCEPT !.kaldi_libraries = @ \cup {From2(args[idx])},
                       !.args = Del(args, idx)]
       ELSE [st EXCEPT !.args = Del(args, idx)]

SetupFrame ==
    UNCHANGED <<kDoubleIsBase, internal, with_keys, error_on_str, files, orphans, last>>

\* while idx < len(kaldi_compiler_args): ...
CompilerLoop ==
    /\ setup.phase = "cflags"
    /\ setup.idx <= Len(setup.args)
    /\ setup' = CompilerIteration(setup)
    /\ SetupFrame

\* the first loop ends; kaldi_linker_args = shlex.split(pkgconfig.libs(...)),
\* idx = 0
LinkerStart ==
    /\ setup.phase = "cflags"
    /\ setup.idx > Len(setup.args)
    /\ \E libs \in Lists(LibsTokens, SetupMaxLen) :
          setup' = [setup EXCEPT !.phase = "libs", !.kaldi_compiler_args = setup.args,
                                 !.libs = libs, !.args = libs, !.idx = 1]
    /\ SetupFrame

\* while idx < len(kaldi_linker_args): ...
LinkerLoop ==
    /\ setup.phase = "libs"
    /\ setup.idx <= Len(setup.args)
    /\ setup' = LinkerIteration(setup)
    /\ SetupFrame

\* the second loop ends
LinkerEnd ==
    /\ setup.phase = "libs"
    /\ setup.idx > Len(setup.args)
    /\ setup' = [setup EXCEPT !.phase = "done"]
    /\ SetupFrame

NextSetup == CompilerLoop \/ LinkerStart \/ LinkerLoop \/ LinkerEnd

SpecSetup == InitSetup /\ [][NextSetup]_vars

\* ------------------------------------------------------------------- claims
IoOps == {"iter", "next", "get", "getitem", "write"}
HandleFields == <<internal, with_keys, error_on_str>>
NineTags == {"bv", "dv", "fv", "bm", "dm", "fm", "wm", "t", "tv"}

\* C1: an I/O call (iter, next, get, [], write) on a handle that is closed
\* raises ValueError, makes no native call, and leaves the handle closed.
C1_ClosedHandleRaises ==
    [][\A h \in Handles :
          (IsClosed(internal[h]) /\ last'.h = h /\ last'.op \in IoOps)
          => /\ last'.exc = "ValueError"
             /\ last'.calls = <<>>
             /\ IsClosed(internal'[h])]_vars

\* a write on the writer after it was open and has been closed
C1_Witness ==
    /\ last.h = "wr" /\ last.op = "write" /\ last.exc = "ValueError"
    /\ IsClosed(internal["wr"])
    /\ files["ark:a"].closed

\* C2: close() on a closed handle makes no native call, raises nothing and
\* changes nothing; close() on an open handle calls Close() once and leaves
\* the handle closed.
C2_CloseIdempotent ==
    [][\A h \in Handles :
          (last'.h = h /\ last'.op = "close")
          => /\ last'.exc = "None"
             /\ IsClosed(internal'[h])
             /\ IF IsClosed(internal[h])
                THEN /\ last'.calls = <<>>
                     /\ UNCHANGED <<HandleFields, files, orphans>>
                ELSE last'.calls = <<"Close">>]_vars

\* a second close() of the writer: the archive is complete and nothing is called
C2_Witness ==
    /\ last.h = "wr" /\ last.op = "close" /\ last.calls = <<>>
    /\ files["ark:a"].closed

\* C3: next() on an open sequential reader whose Done() is true raises
\* StopIteration, does not read or advance, and leaves the reader as it was.
C3_ExhaustedRaises ==
    [][(~IsClosed(internal["seq"]) /\ Done(internal["seq"])
           /\ last'.h = "seq" /\ last'.op = "next")
        => /\ last'.exc = "StopIteration"
           /\ last'.calls = <<"Done">>
           /\ UNCHANGED HandleFields]_vars

\* the reader has returned two entries and the next call raised StopIteration
C3_Witness ==
    /\ last.h = "seq" /\ last.op = "next" /\ last.exc = "StopIteration"
    /\ ~IsClosed(internal["seq"])
    /\ Len(internal["seq"].got) >= 2

\* a sequential reader that is open on a complete archive and has been read
\* to the end
ReadToEnd ==
    /\ ~IsClosed(internal["seq"])
    /\ internal["seq"].complete
    /\ last.h = "seq" /\ last.op = "next" /\ last.exc = "StopIteration"

\* C4 as stated: the reader yields exactly the entries passed to write(), in
\* order and with the same count.
C4_RoundTripExact ==
    ReadToEnd =>
        LET got == internal["seq"].got
            put == files[internal["seq"].xfilename].put
        IN /\ Len(got) = Len(put)
           /\ \A i \in 1..Len(got) :
                 /\ got[i].val = put[i].val
                 /\ got[i].key \in {NoKey, put[i].key}

\* C4 as amended: the reader yields one entry per entry written, in order,
\* with the written key and the value in its stored form (a matrix with one
\* zero axis as the (0,0) matrix, a bare str written as a token sequence as
\* its characters).
C4_RoundTripStored ==
    ReadToEnd =>
        LET got == internal["seq"].got
            put == files[internal["seq"].xfilename].put
            t == ClsType(internal["seq"].cls)
        IN /\ Len(got) = Len(put)
           /\ \A i \in 1..Len(got) :
                 /\ got[i].val = Stored(t, put[i].val)
                 /\ got[i].key \in {NoKey, put[i].key}

\* two entries with different values were written and read back with keys
C4_Witness ==
    /\ ReadToEnd
    /\ Len(internal["seq"].got) = 2
    /\ internal["seq"].got[1].key = KeyAt(1)
    /\ internal["seq"].got[2].key = KeyAt(2)
    /\ internal["seq"].got[1].val # internal["seq"].got[2].val

\* the keys passed to write() for the archive the random-access reader is on
WrittenKeys ==
    LET put == files[internal["ra"].xfilename].put
    IN {put[i].key : i \in 1..Len(put)}
WrittenValue(key) ==
    LET put == files[internal["ra"].xfilename].put
        i == CHOOSE j \in 1..Len(put) : put[j].key = key
    IN Stored(ClsType(internal["ra"].cls), put[i].val)
Looked == last.h = "ra" /\ last.op \in {"get", "getitem"} /\ ~IsClosed(internal["ra"])
Found(key) ==
    /\ last.exc = "None"
    /\ last.ret.val = WrittenValue(key)
    /\ last.calls = <<"HasKey", "Value">>
Missed ==
    /\ last.calls = <<"HasKey">>
    /\ last.ret = NoRet
    /\ last.exc = IF last.will_raise THEN "KeyError" ELSE "None"

\* C5 as stated: on an open random-access reader a key that was written is
\* found and its value returned; a key never written raises KeyError from []
\* and get(will_raise=True), returns None from get(key), never calls Value().
C5_LookupByKey ==
    Looked => IF last.key \in WrittenKeys THEN Found(last.key) ELSE Missed

\* C5 as amended: the same, for the key the reader looks up: the key itself
\* on a reader opened without a key map, its translation on a reader opened
\* with one (a key without a translation is never found).
C5_LookupByMappedKey ==
    Looked =>
        LET mapped == internal["ra"].utt2spk # ""
            key == IF ~mapped THEN last.key
                   ELSE IF last.key \in DOMAIN Utt2Spk THEN Utt2Spk[last.key]
                   ELSE NoKey
        IN IF key \in WrittenKeys THEN Found(key) ELSE Missed

\* a reader opened with a key map finds the entry of the translated key
C5_Witness ==
    /\ Looked
    /\ internal["ra"].utt2spk # ""
    /\ last.key = KeyAt(2)
    /\ last.ret.val # NoVal

\* C6: the type bound to a handle that stays open does not change.
C6_TypeFixedWhileOpen ==
    [][\A h \in Handles :
          (~IsClosed(internal[h]) /\ ~IsClosed(internal'[h]))
          => ClsType(internal'[h].cls) = ClsType(internal[h].cls)]_vars

\* C7: no instance was opened, never closed, and dropped by its handle.
C7_NoOrphan == ~orphans

\* C8: a call that raises leaves the fields of the handle as they were.
C8_FailureKeepsState ==
    [][last'.exc # "None" => UNCHANGED HandleFields]_vars

\* C9: a bare str written to a token-sequence writer is rejected, with no
\* native call, when the writer was opened strict, and passed to the native
\* writer when it was opened with tv_error_on_str=False.
C9_StrictRejectsStr ==
    (/\ last.h = "wr" /\ last.op = "write" /\ IsStr(last.value)
     /\ ~IsClosed(internal["wr"])
     /\ internal["wr"].cls = "TokenVectorWriter")
    => IF internal["wr"].opt
       THEN last.exc = "TypeError" /\ last.calls = <<>>
       ELSE last.exc = "None" /\ last.calls = <<"Write">>

\* the native classes of each handle kind
ClassesOf(h) ==
    CASE h = "seq" -> SeqClasses [] h = "ra" -> RaClasses [] h = "wr" -> WriterClasses

\* C10: open() with one of the nine tags, as str or enum member, never fails
\* the class assertion or the tag conversion, and the instance it creates is
\* of a class of the handle's kind for that type; open() with another tag
\* raises ValueError, creates no instance and leaves the handle closed.
C10_TypeSelectionTotal ==
    last.op = "open" =>
        IF last.dtype.isEnum \/ last.dtype.v \in NineTags
        THEN /\ last.exc \notin {"AssertionError", "ValueError"}
             /\ last.exc \in {"None", "IOError"} => last.calls # <<>>
             /\ last.calls # <<>> =>
                   /\ last.calls[1] \in ClassesOf(last.h)
                   /\ LET m == IF last.dtype.isEnum THEN last.dtype.v
                               ELSE CHOOSE n \in Members : MemberValue[n] = last.dtype.v
                      IN IF m = "BaseVector"
                         THEN ClsType(last.calls[1]) \in {"DoubleVector", "FloatVector"}
                         ELSE IF m = "BaseMatrix"
                         THEN ClsType(last.calls[1]) \in {"DoubleMatrix", "FloatMatrix"}
                         ELSE ClsType(last.calls[1]) = m
        ELSE /\ last.exc = "ValueError"
             /\ last.calls = <<>>
             /\ IsClosed(internal[last.h])

\* the sequential reader was opened on a wave archive
C10_Witness ==
    /\ last.h = "seq" /\ last.op = "open" /\ last.exc = "None"
    /\ last.dtype = [isEnum |-> FALSE, v |-> "wm"]
    /\ internal["seq"].cls = "SequentialWaveReader"

\* C11: an open sequential reader has returned, in order, exactly the entries
\* before its cursor (the k-th successful next() returned the k-th entry, none
\* twice); the cursor of a reader never moves back between two calls other
\* than open() and close(); iter() leaves the reader and its cursor as they were.
C11_OneForwardPass ==
    [][/\ ~IsClosed(internal'["seq"]) =>
             LET r == internal'["seq"]
             IN /\ r.pos = Len(r.got) + 1
                /\ r.pos <= Len(r.data) + 1
                /\ \A k \in 1..Len(r.got) :
                      /\ r.got[k].val = r.data[k].val
                      /\ r.got[k].key \in {NoKey, r.data[k].key}
       /\ (/\ ~IsClosed(internal["seq"]) /\ ~IsClosed(internal'["seq"])
           /\ last'.op \notin {"open", "close"})
          => internal'["seq"].pos >= internal["seq"].pos
       /\ (last'.h = "seq" /\ last'.op = "iter")
          => UNCHANGED <<internal, with_keys, files>>]_vars

\* iter() was called in the middle of a pass: one of two entries was returned
C11_Witness ==
    /\ last.h = "seq" /\ last.op = "iter" /\ last.exc = "None"
    /\ ~IsClosed(internal["seq"])
    /\ Len(internal["seq"].data) = 2
    /\ internal["seq"].pos = 2
    /\ Len(internal["seq"].got) = 1

\* C12: leaving a with-block on a handle, with or without an exception, calls
\* Close() once if the handle was open and nothing if it was closed, leaves
\* the handle closed, raises nothing of its own and returns None, so that the
\* exception of the block propagates; on a closed handle it changes nothing.
C12_ExitReleases ==
    [][\A h \in Handles :
          (last'.h = h /\ last'.op = "exit")
          => /\ IsClosed(internal'[h])
             /\ last'.exc = "None"
             /\ last'.ret = NoRet
             /\ IF IsClosed(internal[h])
                THEN /\ last'.calls = <<>>
                     /\ UNCHANGED <<HandleFields, files, orphans>>
                ELSE /\ last'.calls = <<"Close">>
                     /\ internal[h].cls \in WriterClasses
                        => files'[internal[h].xfilename].closed]_vars

\* a with-block on a writer that wrote an entry was left with an exception
C12_Witness ==
    /\ last.h = "wr" /\ last.op = "exit" /\ last.value = "RuntimeError"
    /\ last.calls = <<"Close">>
    /\ IsClosed(internal["wr"])
    /\ Len(files["ark:a"].entries) = 1
    /\ files["ark:a"].closed

\* C13: when the random-access reader's open() is given a key map, the class
\* it instantiates is a key-mapped class, whatever the type; and the class and
\* the arguments of its Open() agree: a mapped class is opened with the map,
\* an unmapped class with the location alone.
C13_MappedWhenKeyMap ==
    (last.h = "ra" /\ last.op = "open" /\ Len(last.calls) >= 2)
    => (last.calls[1] \in RaMappedClasses <=> Len(last.calls) = 3)

\* the open-time options documented for each kind of handle
Documented(h) ==
    CASE h = "seq" -> {"with_keys", "wav_with_info"}
      [] h = "ra" -> {"utt2spk", "wav_with_info"}
      [] h = "wr" -> {"tv_error_on_str"}

\* C14: open() rejects its keyword arguments with TypeError only when one of
\* them is not a documented option of the handle's kind; in particular a
\* reader's open() with the wave type and wav_with_info=True is not rejected.
C14_DocumentedOptionsAccepted ==
    (last.op = "open" /\ last.exc = "TypeError" /\ last.calls = <<>>)
    => ~(DOMAIN last.kwargs \subseteq Documented(last.h))

\* C15: a writer bound to a matrix type accepts a matrix whatever its shape;
\* a matrix with one zero axis is stored, and read back, as the (0,0) matrix,
\* a matrix with both axes non-zero as itself.
C15_DegenerateStoredEmpty ==
    /\ (/\ last.h = "wr" /\ last.op = "write" /\ ~IsClosed(internal["wr"])
        /\ IsMatrixType(ClsType(internal["wr"].cls))
        /\ last.value \in {"mat", "degen"})
       => last.exc = "None" /\ last.calls = <<"Write">>
    /\ \A x \in Xfilenames :
          IsMatrixType(files[x].dtype) =>
             /\ Len(files[x].entries) = Len(files[x].put)
             /\ \A i \in 1..Len(files[x].put) :
                   files[x].entries[i].val =
                      IF files[x].put[i].val = "degen" THEN "mat00"
                      ELSE files[x].put[i].val
    /\ (~IsClosed(internal["seq"]) /\ IsMatrixType(ClsType(internal["seq"].cls)))
       => LET got == internal["seq"].got
              put == files[internal["seq"].xfilename].put
          IN \A k \in 1..Len(got) :
                got[k].val = IF put[k].val = "degen" THEN "mat00" ELSE put[k].val

\* a matrix with a zero axis and a full matrix were written and read back
C15_Witness ==
    /\ ~IsClosed(internal["seq"])
    /\ Len(internal["seq"].got) = 2
    /\ files[internal["seq"].xfilename].put[1].val = "degen"
    /\ files[internal["seq"].xfilename].put[2].val = "mat"
    /\ internal["seq"].got[1].val = "mat00"
    /\ internal["seq"].got[2].val = "mat"

\* whether the native Open() that open() called returned false: the location
\* cannot be opened by the class (a call the class does not take raises instead)
OpenReportsFailure(h, calls, xfilename, fs) ==
    /\ Len(calls) >= 2
    /\ Len(calls) = 3 => calls[1] \in RaMappedClasses
    /\ IF h = "wr" THEN ~WriterOpenOK(calls[1], xfilename, fs)
                   ELSE ~ReaderOpenOK(calls[1], xfilename, fs)

\* C16: when the native Open() reports failure, open() raises IOError with a
\* message that carries the location passed to open(), and the handle keeps
\* the instance it had (none, if it was closed): the failed instance is not
\* stored.
C16_OpenFailureRaises ==
    [][\A h \in Handles :
          (/\ last'.h = h /\ last'.op = "open"
           /\ OpenReportsFailure(h, last'.calls, last'.xfilename, files))
          => /\ last'.exc = "IOError"
             /\ last'.msg = last'.xfilename
             /\ internal'[h] = internal[h]
             /\ IsClosed(internal[h]) => IsClosed(internal'[h])
             /\ UNCHANGED files]_vars

\* the random-access reader was opened as a token reader on an archive of
\* matrices, and is closed
C16_Witness ==
    /\ last.h = "ra" /\ last.op = "open" /\ last.exc = "IOError"
    /\ last.xfilename = "ark:a" /\ last.msg = "ark:a"
    /\ files["ark:a"].exists /\ files["ark:a"].dtype = "FloatMatrix"
    /\ last.calls = <<"RandomAccessTokenReader", "Open">>
    /\ IsClosed(internal["ra"])

\* C17: the base precision never changes; open() with the tag bv or bm (as
\* str or enum member) instantiates, on every kind of handle, a class of the
\* double vector / double matrix type when the base precision is double and
\* of the float vector / float matrix type otherwise; and is_double of bv and
\* bm equals is_double of the type each resolves to.
C17_BasePrecisionUniform ==
    [][/\ kDoubleIsBase' = kDoubleIsBase
       /\ \A m \in {"BaseVector", "BaseMatrix"} :
             (/\ last'.op = "open" /\ KaldiDataType(last'.dtype) = m
              /\ last'.calls # <<>>)
             => LET t == ClsType(last'.calls[1])
                IN /\ last'.calls[1] \in ClassesOf(last'.h)
                   /\ t = IF m = "BaseVector"
                          THEN (IF kDoubleIsBase THEN "DoubleVector" ELSE "FloatVector")
                          ELSE (IF kDoubleIsBase THEN "DoubleMatrix" ELSE "FloatMatrix")
                   /\ is_double(m, kDoubleIsBase) = is_double(t, kDoubleIsBase)
                   /\ is_double(t, kDoubleIsBase) = kDoubleIsBase]_vars

\* on a double-precision build, an archive written with the tag bm was opened
\* by the sequential reader with the tag bm
C17_Witness ==
    /\ kDoubleIsBase
    /\ last.h = "seq" /\ last.op = "open" /\ last.exc = "None"
    /\ last.dtype = [isEnum |-> FALSE, v |-> "bm"]
    /\ internal["seq"].cls = "SequentialDoubleMatrixReader"
    /\ files["ark:a"].dtype = "DoubleMatrix"

\* what the factory does with a mode, given the modes that select a writer:
\* "r" returns an opened sequential reader, "r+" an opened random-access
\* reader, a writer mode an opened writer (when open() raises, the exception
\* leaves the factory and no handle is created); any other mode raises
\* ValueError, makes no native call and creates no handle
FactoryByMode(writerModes) ==
      (last'.op = "factory" =>
          LET kind == IF last'.mode = "r" THEN "seq"
                      ELSE IF last'.mode = "r+" THEN "ra"
                      ELSE IF last'.mode \in writerModes THEN "wr"
                      ELSE "None"
          IN IF kind = "None"
             THEN /\ last'.exc = "ValueError"
                  /\ last'.calls = <<>>
                  /\ UNCHANGED <<HandleFields, files>>
             ELSE /\ last'.exc # "ValueError"
                  /\ last'.h = kind
                  /\ IF last'.exc = "None"
                     THEN /\ ~IsClosed(internal'[kind])
                          /\ internal'[kind].cls \in ClassesOf(kind)
                          /\ internal'[kind].xfilename = last'.xfilename
                          /\ \A g \in Handles \ {kind} : internal'[g] = internal[g]
                     ELSE UNCHANGED <<HandleFields, files>>)

C19_ConstructorOpens ==
    [][\A h \in Handles :
          (last'.h = h /\ last'.op = "init") =>
             LET hasX == last'.xfilename # ""
                 hasD == last'.dtype # NoDtype
             IN IF hasX /\ hasD
                THEN /\ last'.calls # <<>>
                     /\ last'.calls[1] \in ClassesOf(h)
                     /\ IF last'.exc = "None"
                        THEN /\ ~IsClosed(internal'[h])
                             /\ internal'[h].cls = last'.calls[1]
                             /\ internal'[h].xfilename = last'.xfilename
                             /\ h = "seq" =>
                                   /\ with_keys' = KwGet(last'.kwargs, "with_keys", FALSE)
                                   /\ internal'[h].opt = with_keys'
                             /\ h = "ra" =>
                                   internal'[h].utt2spk = KwGet(last'.kwargs, "utt2spk", "")
                        ELSE UNCHANGED <<HandleFields, files>>
                ELSE IF hasX \/ hasD
                THEN /\ last'.exc = "TypeError"
                     /\ last'.calls = <<>>
                     /\ UNCHANGED <<HandleFields, files>>
                ELSE /\ last'.exc = "None"
                     /\ last'.calls = <<>>
                     /\ IsClosed(internal'[h])
                     /\ h = "seq" => with_keys' = FALSE
                     /\ h = "wr" => error_on_str' = FALSE
                     /\ UNCHANGED files]_vars

\* a sequential reader was constructed with with_keys=True on an archive of
\* two entries, and is open
C19_Witness ==
    /\ last.h = "seq" /\ last.op = "init" /\ last.exc = "None"
    /\ last.kwargs = Kw("with_keys", TRUE)
    /\ ~IsClosed(internal["seq"])
    /\ internal["seq"].opt
    /\ Len(internal["seq"].data) = 2

\* C20: a successful next() on an open sequential reader returns the value of
\* the entry at the cursor, paired with the key of that entry when the reader
\* was opened with with_keys true and alone otherwise, and moves the cursor
\* forward by one entry.
C20_NextReturnsEntry ==
    [][(/\ ~IsClosed(internal["seq"])
        /\ last'.h = "seq" /\ last'.op = "next" /\ last'.exc = "None")
       => LET r == internal["seq"]
          IN /\ ~Done(r)
             /\ last'.ret.val = r.data[r.pos].val
             /\ last'.ret.key = IF r.opt THEN r.data[r.pos].key ELSE NoKey
             /\ ~IsClosed(internal'["seq"])
             /\ internal'["seq"].pos = r.pos + 1]_vars

\* C21: get(key) and reader[key] on the random-access reader, whether the key
\* is found or not and whether or not they raise, leave the handle, the other
\* handles and the archives as they were (an open reader stays open on the
\* same instance); and a lookup that follows a lookup of the same key on the
\* open reader ends as the first one did.
C21_LookupIsPureRead ==
    [][(last'.h = "ra" /\ last'.op \in {"get", "getitem"})
       => /\ UNCHANGED <<HandleFields, files, orphans>>
          /\ (/\ ~IsClosed(internal["ra"])
              /\ last.h = "ra" /\ last.op \in {"get", "getitem"}
              /\ last.key = last'.key /\ last.will_raise = last'.will_raise)
             => /\ last'.exc = last.exc
                /\ last'.ret = last.ret
                /\ last'.calls = last.calls]_vars

\* reader[key] after get(key, will_raise=True) found the same entry again
C21_Witness ==
    /\ last.h = "ra" /\ last.op = "getitem" /\ last.exc = "None"
    /\ last.key = KeyAt(2)
    /\ last.ret.val # NoVal
    /\ ~IsClosed(internal["ra"])
    /\ Len(internal["ra"].data) = 2

\* C22: a call on one handle leaves the other handles as they were: open or
\* closed, the instance and its cursor, and the options with_keys (of the
\* sequential reader) and strictness (of the writer).
C22_HandlesIndependent ==
    [][\A h \in Handles :
          last'.h = h
          => /\ \A g \in Handles \ {h} : internal'[g] = internal[g]
             /\ h # "seq" => with_keys' = with_keys
             /\ h # "wr" => error_on_str' = error_on_str]_vars

\* the writer wrote an entry while the sequential reader was in the middle of
\* its pass, with keys, and the random-access reader was open
C22_Witness ==
    /\ last.h = "wr" /\ last.op = "write" /\ last.exc = "None"
    /\ ~IsClosed(internal["seq"]) /\ internal["seq"].pos = 2 /\ with_keys
    /\ ~IsClosed(internal["ra"])
    /\ ~IsClosed(internal["wr"])
    /\ internal["seq"].xfilename # internal["wr"].xfilename
    /\ internal["ra"].xfilename # internal["wr"].xfilename

\* C23: while the writer is open, its reject-bare-str option is set only if
\* the instance it is bound to is a token-sequence writer; a bare str written
\* to a writer bound to another type is never rejected by that option (it
\* reaches the native writer).
C23_StrictOnlyOnTokenVector ==
    (~IsClosed(internal["wr"]) /\ internal["wr"].cls # "TokenVectorWriter")
    => /\ ~error_on_str
       /\ (last.h = "wr" /\ last.op = "write" /\ IsStr(last.value))
          => last.calls = <<"Write">>

\* the tokens of a list that are, or follow, a flag: the directories given as
\* '<flag><dir>' or as '<flag>' '<dir>'
DirsGiven(list, flag) ==
    {From2(list[i]) : i \in {j \in 1..Len(list) :
                                Prefix2(list[j]) = flag /\ Len(list[j]) > 2}}
    \cup {list[i + 1] : i \in {j \in 1..(Len(list) - 1) : list[j] = flag}}

\* the '-D...' tokens of a list, in their order
RECURSIVE Defines(_)
Defines(list) ==
    IF list = <<>> THEN <<>>
    ELSE IF Prefix2(Head(list)) = <<"-", "D">>
         THEN <<Head(list)>> \o Defines(Tail(list))
         ELSE Defines(Tail(list))

\* C24: the two loops raise nothing, and when they have ended every include
\* directory of the compiler flags is in kaldi_include_dirs, every library
\* directory of the linker flags in kaldi_library_dirs, every '-l' library in
\* kaldi_libraries, kaldi_compiler_args is the list of the '-D' tokens in
\* their order, and kaldi_linker_args is empty.
C24_FlagsPartitioned ==
    /\ setup.exc = "None"
    /\ setup.phase = "done" =>
          /\ DirsGiven(setup.cflags, <<"-", "I">>) \subseteq setup.kaldi_include_dirs
          /\ DirsGiven(setup.libs, <<"-", "L">>) \subseteq setup.kaldi_library_dirs
          /\ \A i \in 1..Len(setup.libs) :
                Prefix2(setup.libs[i]) = <<"-", "l">>
                => From2(setup.libs[i]) \in setup.kaldi_libraries
          /\ setup.kaldi_compiler_args = Defines(setup.cflags)
          /\ setup.args = <<>>

====
